---- MODULE Spec2Model ----
(***************************************************************************)
(* Model of travel_agent.py: the Streamlit travel planner.                 *)
(*                                                                         *)
(* The script checks its two API keys at startup, and on the "Generate     *)
(* Travel Plan" button runs four blocking external calls (flight search,   *)
(* then three language-model prompts) followed by the display block.       *)
(* Python dicts are functions whose DOMAIN is the set of keys present;     *)
(* Python strings that the code parses are sequences of one-character      *)
(* strings.                                                                *)
(***************************************************************************)
EXTENDS Integers, Sequences, FiniteSets, TLC

VARIABLES
    SERPAPI_KEY,         \* os.getenv("SERPAPI_KEY")
    OPENROUTER_API_KEY,  \* os.getenv("OPENROUTER_API_KEY")
    pc,                  \* position of the script
    flight_data,         \* result of fetch_flights()
    cheapest_flights,    \* result of extract_cheapest_flights(flight_data)
    research,            \* text of the research prompt
    hotels,              \* text of the lodging prompt
    itinerary,           \* text of the itinerary prompt
    outstanding,         \* external calls issued and not yet returned or failed
    calls,               \* external calls issued by this run, in order
    screen,              \* what the script has rendered, in order
    raised,              \* the step whose external call raised, or "none"
    t,                   \* argument of a direct format_datetime call
    out                  \* its result

vars == <<SERPAPI_KEY, OPENROUTER_API_KEY, pc, flight_data, cheapest_flights,
          research, hotels, itinerary, outstanding, calls, screen, raised, t, out>>

runvars == <<flight_data, cheapest_flights, research, hotels, itinerary,
             outstanding, calls, screen, raised>>

(***************************************************************************)
(* Bounds of the model.                                                    *)
(***************************************************************************)
MaxOffers == 4      \* longest "best_flights" list a response carries

(***************************************************************************)
(* Python values.                                                          *)
(***************************************************************************)
PyStr(s) == [type |-> "str", val |-> s]
PyNone == [type |-> "NoneType"]

\* dict.get(k, default)
Get(d, k, default) == IF k \in DOMAIN d THEN d[k] ELSE default

\* not x, for x a value of os.getenv: None or a string
Falsy(x) == x = PyNone \/ x = PyStr(<<>>)

KeyValues == {PyNone, PyStr(<<>>), PyStr(<<"k">>)}

Unset == [unset |-> TRUE]
NoText == "<unset>"

(***************************************************************************)
(* format_datetime: datetime.strptime(t, "%Y-%m-%d %H:%M") followed by     *)
(* strftime("%d %b %Y | %I:%M %p"), any exception turned into "N/A".       *)
(*                                                                         *)
(* strptime compiles the format to the regular expression                  *)
(*   (?P<Y>\d\d\d\d)-(?P<m>1[0-2]|0[1-9]|[1-9])-                           *)
(*   (?P<d>3[0-1]|[1-2]\d|0[1-9]|[1-9]| [1-9])\s+                          *)
(*   (?P<H>2[0-3]|[0-1]\d|\d):(?P<M>[0-5]\d|\d)                            *)
(* matches it at the start of the string, raises ValueError when nothing   *)
(* matches or when text remains after the match, and then builds a         *)
(* datetime, which raises ValueError for a day the month does not have     *)
(* and for year 0.  The matchers below return the set of positions at      *)
(* which a group can end when started at position i.                       *)
(***************************************************************************)
NA == <<"N", "/", "A">>

DigitChars == <<"0", "1", "2", "3", "4", "5", "6", "7", "8", "9">>
IsDigit(c) == \E k \in 1..10 : DigitChars[k] = c
DigitVal(c) == (CHOOSE k \in 1..10 : DigitChars[k] = c) - 1
IsSpace(c) == c \in {" ", "\t", "\n"}

\* the character at position i, "" past the end
At(s, i) == IF i >= 1 /\ i <= Len(s) THEN s[i] ELSE ""
In(c, lo, hi) == IsDigit(c) /\ DigitVal(c) >= lo /\ DigitVal(c) <= hi

\* (?P<Y>\d\d\d\d)
EndsY(s, i) ==
    IF \A k \in 0..3 : IsDigit(At(s, i + k)) THEN {i + 4} ELSE {}

\* (?P<m>1[0-2]|0[1-9]|[1-9])
Ends_m(s, i) ==
    (IF At(s, i) = "1" /\ In(At(s, i + 1), 0, 2) THEN {i + 2} ELSE {})
    \cup (IF At(s, i) = "0" /\ In(At(s, i + 1), 1, 9) THEN {i + 2} ELSE {})
    \cup (IF In(At(s, i), 1, 9) THEN {i + 1} ELSE {})

\* (?P<d>3[0-1]|[1-2]\d|0[1-9]|[1-9]| [1-9])
Ends_d(s, i) ==
    (IF At(s, i) = "3" /\ In(At(s, i + 1), 0, 1) THEN {i + 2} ELSE {})
    \cup (IF In(At(s, i), 1, 2) /\ IsDigit(At(s, i + 1)) THEN {i + 2} ELSE {})
    \cup (IF At(s, i) = "0" /\ In(At(s, i + 1), 1, 9) THEN {i + 2} ELSE {})
    \cup (IF In(At(s, i), 1, 9) THEN {i + 1} ELSE {})
    \cup (IF At(s, i) = " " /\ In(At(s, i + 1), 1, 9) THEN {i + 2} ELSE {})

\* \s+ (the space of the format)
EndsWS(s, i) ==
    {j \in (i + 1)..(Len(s) + 1) : \A k \in i..(j - 1) : IsSpace(At(s, k))}

\* (?P<H>2[0-3]|[0-1]\d|\d)
Ends_H(s, i) ==
    (IF At(s, i) = "2" /\ In(At(s, i + 1), 0, 3) THEN {i + 2} ELSE {})
    \cup (IF In(At(s, i), 0, 1) /\ IsDigit(At(s, i + 1)) THEN {i + 2} ELSE {})
    \cup (IF IsDigit(At(s, i)) THEN {i + 1} ELSE {})

\* (?P<M>[0-5]\d|\d)
Ends_M(s, i) ==
    (IF In(At(s, i), 0, 5) /\ IsDigit(At(s, i + 1)) THEN {i + 2} ELSE {})
    \cup (IF IsDigit(At(s, i)) THEN {i + 1} ELSE {})

\* a literal character of the format
EndsLit(s, i, c) == IF At(s, i) = c THEN {i + 1} ELSE {}

\* The matches of the whole expression that leave no text unconverted, as
\* the positions <<y, m, d, w, h, n>> at which the groups end.  A match that
\* stops short raises "unconverted data remains"; because every group is
\* followed by a character no digit group can contain, the match the regex
\* engine finds first is the only one there is.
FullMatches(s) ==
    UNION { UNION { UNION { UNION { UNION {
        { <<y, m, d, w, h, n>> : n \in {e \in Ends_M(s, h + 1) : e = Len(s) + 1} }
        : h \in {e \in Ends_H(s, w) : EndsLit(s, e, ":") # {}} }
        : w \in EndsWS(s, d) }
        : d \in Ends_d(s, m + 1) }
        : m \in {e \in Ends_m(s, y + 1) : EndsLit(s, e, "-") # {}} }
        : y \in {e \in EndsY(s, 1) : EndsLit(s, e, "-") # {}} }

\* int() of a matched group (int() skips the blank of the " [1-9]" day)
RECURSIVE ToInt(_)
ToInt(s) ==
    IF s = <<>> THEN 0
    ELSE IF IsDigit(s[Len(s)])
         THEN 10 * ToInt(SubSeq(s, 1, Len(s) - 1)) + DigitVal(s[Len(s)])
         ELSE ToInt(SubSeq(s, 1, Len(s) - 1))

IsLeap(y) == y % 4 = 0 /\ (y % 100 # 0 \/ y % 400 = 0)
DaysInMonth(y, m) ==
    IF m = 2 THEN (IF IsLeap(y) THEN 29 ELSE 28)
    ELSE IF m \in {4, 6, 9, 11} THEN 30 ELSE 31

\* datetime.strptime(t, "%Y-%m-%d %H:%M"): a datetime or the exception raised
strptime(v) ==
    IF v.type # "str" THEN [raise |-> "TypeError"]
    ELSE LET s == v.val
             ms == FullMatches(s)
         IN IF ms = {} THEN [raise |-> "ValueError"]
            ELSE LET p == CHOOSE q \in ms : TRUE
                     year == ToInt(SubSeq(s, 1, p[1] - 1))
                     month == ToInt(SubSeq(s, p[1] + 1, p[2] - 1))
                     day == ToInt(SubSeq(s, p[2] + 1, p[3] - 1))
                     hour == ToInt(SubSeq(s, p[4], p[5] - 1))
                     minute == ToInt(SubSeq(s, p[5] + 1, p[6] - 1))
                 IN IF year < 1 \/ day > DaysInMonth(year, month)
                    THEN [raise |-> "ValueError"]
                    ELSE [year |-> year, month |-> month, day |-> day,
                          hour |-> hour, minute |-> minute]

MonthAbbr ==
    << <<"J", "a", "n">>, <<"F", "e", "b">>, <<"M", "a", "r">>, <<"A", "p", "r">>,
       <<"M", "a", "y">>, <<"J", "u", "n">>, <<"J", "u", "l">>, <<"A", "u", "g">>,
       <<"S", "e", "p">>, <<"O", "c", "t">>, <<"N", "o", "v">>, <<"D", "e", "c">> >>

Pad2(n) == <<DigitChars[((n \div 10) % 10) + 1], DigitChars[(n % 10) + 1]>>
\* %Y of a year from 1000 on
Pad4(n) == Pad2(n \div 100) \o Pad2(n % 100)
Hour12(h) == IF h % 12 = 0 THEN 12 ELSE h % 12

\* dt.strftime("%d %b %Y | %I:%M %p")
strftime(dt) ==
    Pad2(dt.day) \o <<" ">> \o MonthAbbr[dt.month] \o <<" ">> \o Pad4(dt.year)
    \o <<" ", "|", " ">> \o Pad2(Hour12(dt.hour)) \o <<":">> \o Pad2(dt.minute)
    \o <<" ">> \o (IF dt.hour < 12 THEN <<"A", "M">> ELSE <<"P", "M">>)

\* the handler narrowed to "except ValueError": a TypeError gets out
format_datetime_ValueErrorOnly(v) ==
    LET dt == strptime(v)
    IN IF "raise" \in DOMAIN dt
       THEN (IF dt.raise = "ValueError" THEN PyStr(NA) ELSE dt)
       ELSE PyStr(strftime(dt))

\* try: return strptime(...).strftime(...)   except: return "N/A"
format_datetime(v) ==
    LET dt == strptime(v)
    IN IF "raise" \in DOMAIN dt THEN PyStr(NA) ELSE PyStr(strftime(dt))

(***************************************************************************)
(* Provider responses.  An offer is a dict with an optional "price" and    *)
(* an optional "flights" list of legs; a leg carries an optional airline   *)
(* and optional departure and arrival times.                               *)
(***************************************************************************)
Chars_2025_03_10_1430 ==
    <<"2", "0", "2", "5", "-", "0", "3", "-", "1", "0", " ", "1", "4", ":", "3", "0">>
Chars_2025_03_10_T1430 ==
    <<"2", "0", "2", "5", "-", "0", "3", "-", "1", "0", "T", "1", "4", ":", "3", "0">>

LegA == [airline |-> "Air India",
         departure_airport |-> [time |-> PyStr(Chars_2025_03_10_1430)],
         arrival_airport |-> [time |-> PyStr(Chars_2025_03_10_T1430)]]
LegB == [departure_airport |-> [id |-> "DEL"],
         arrival_airport |-> [time |-> PyStr(Chars_2025_03_10_1430)]]
LegLists == {<<>>, <<LegA, LegB>>}

Prices == {9000, 12000}

BaseOffer == [type |-> "Round trip"]
OffersByPrice == {BaseOffer} \cup {BaseOffer @@ [price |-> p] : p \in Prices}
Offers == OffersByPrice \cup {o @@ [flights |-> l] : o \in OffersByPrice, l \in LegLists}

OfferLists == UNION {[1..n -> Offers] : n \in 0..MaxOffers}

\* the provider's answer to a request it rejects: no "best_flights"
ErrorResponse == [search_metadata |-> "Error",
                  error |-> "Invalid departure_id"]
\* an answer that carries no "best_flights" key though the search succeeded
NoListResponse == [search_metadata |-> "Success"]
ListResponse(l) == [search_metadata |-> "Success", best_flights |-> l]

Responses == {ErrorResponse, NoListResponse} \cup {ListResponse(l) : l \in OfferLists}

(***************************************************************************)
(* extract_cheapest_flights                                                *)
(***************************************************************************)
\* the key with 0 as the default: x.get("price", 0)
PriceKeyZeroDefault(x) ==
    IF "price" \in DOMAIN x THEN [inf |-> FALSE, val |-> x.price]
    ELSE [inf |-> FALSE, val |-> 0]

\* lambda x: x.get("price", float("inf"))
PriceKey(x) ==
    IF "price" \in DOMAIN x THEN [inf |-> FALSE, val |-> x.price]
    ELSE [inf |-> TRUE, val |-> 0]

\* a < b on keys: float("inf") is above every price and not below itself
KeyLess(a, b) == ~a.inf /\ (b.inf \/ a.val < b.val)

\* an insertion that is not stable: x goes in front of its equals
RECURSIVE InsertBeforeEqual(_, _)
InsertBeforeEqual(xs, x) ==
    IF xs = <<>> THEN <<x>>
    ELSE IF ~KeyLess(PriceKey(xs[Len(xs)]), PriceKey(x))
         THEN Append(InsertBeforeEqual(SubSeq(xs, 1, Len(xs) - 1), x), xs[Len(xs)])
         ELSE Append(xs, x)

\* x put into the sorted list xs behind every element that is not above it
RECURSIVE InsertStable(_, _)
InsertStable(xs, x) ==
    IF xs = <<>> THEN <<x>>
    ELSE IF KeyLess(PriceKey(x), PriceKey(xs[Len(xs)]))
         THEN Append(InsertStable(SubSeq(xs, 1, Len(xs) - 1), x), xs[Len(xs)])
         ELSE Append(xs, x)

\* sorted(flights, key=...): Python's sort is stable
RECURSIVE sorted(_)
sorted(flights) ==
    IF flights = <<>> THEN <<>>
    ELSE InsertStable(sorted(SubSeq(flights, 1, Len(flights) - 1)),
                      flights[Len(flights)])

\* xs[:n]
Slice(xs, n) == SubSeq(xs, 1, IF Len(xs) < n THEN Len(xs) ELSE n)

extract_cheapest_flights(data) ==
    LET flights == Get(data, "best_flights", <<>>)
    IN Slice(sorted(flights), 3)

(***************************************************************************)
(* The display block.                                                      *)
(***************************************************************************)
\* leg.get(airport, {}).get("time", "")
AirportTime(leg, airport) ==
    IF airport \in DOMAIN leg /\ "time" \in DOMAIN leg[airport]
    THEN leg[airport].time
    ELSE PyStr(<<>>)

\* the body of the loop over cheapest_flights, for one offer
FlightItem(flight) ==
    LET flights_info == Get(flight, "flights", <<>>)
    IN IF flights_info = <<>>
       THEN [w |-> "warning", text |-> "Flight details unavailable"]
       ELSE [w |-> "card",
             airline |-> Get(flights_info[1], "airline", "Unknown Airline"),
             price |-> Get(flight, "price", "N/A"),
             dep_time |-> format_datetime(
                              AirportTime(flights_info[1], "departure_airport")),
             arr_time |-> format_datetime(
                              AirportTime(flights_info[Len(flights_info)],
                                          "arrival_airport"))]

\* the loop without the else branch: an empty selection shows nothing
RenderFlightsSilent(cf) == [i \in 1..Len(cf) |-> FlightItem(cf[i])]

\* the loop with break for continue: it ends at the first offer without legs
RenderFlightsBreak(cf) ==
    IF cf # <<>>
    THEN LET bad == {i \in 1..Len(cf) : Get(cf[i], "flights", <<>>) = <<>>}
             last == IF bad = {} THEN Len(cf)
                     ELSE CHOOSE i \in bad : \A j \in bad : i <= j
         IN [i \in 1..last |-> FlightItem(cf[i])]
    ELSE << [w |-> "warning", text |-> "No flights found"] >>

\* if cheapest_flights: ... else: st.warning("No flights found")
RenderFlights(cf) ==
    IF cf # <<>>
    THEN [i \in 1..Len(cf) |-> FlightItem(cf[i])]
    ELSE << [w |-> "warning", text |-> "No flights found"] >>

DisplayBlock ==
    << [w |-> "subheader", text |-> "Cheapest Flights"] >>
    \o RenderFlights(cheapest_flights)
    \o << [w |-> "subheader", text |-> "Hotels & Restaurants"],
          [w |-> "write", text |-> hotels],
          [w |-> "subheader", text |-> "Personalized Itinerary"],
          [w |-> "write", text |-> itinerary],
          [w |-> "success", text |-> "Travel plan generated successfully!"] >>

(***************************************************************************)
(* The script.                                                             *)
(***************************************************************************)
Steps == <<"flights", "research", "hotels", "itinerary">>

Init ==
    /\ SERPAPI_KEY \in KeyValues
    /\ OPENROUTER_API_KEY \in KeyValues
    /\ pc = "startup"
    /\ flight_data = Unset
    /\ cheapest_flights = <<>>
    /\ research = NoText
    /\ hotels = NoText
    /\ itinerary = NoText
    /\ outstanding = {}
    /\ calls = <<>>
    /\ screen = <<>>
    /\ raised = "none"
    /\ t = PyNone
    /\ out = PyNone

\* the check with "and" for "or": it stops only when both keys are missing
StartupBothMissing ==
    /\ pc = "startup"
    /\ IF Falsy(SERPAPI_KEY) /\ Falsy(OPENROUTER_API_KEY)
       THEN /\ screen' = << [w |-> "error", text |-> "API keys missing in .env file"] >>
            /\ pc' = "stopped"
       ELSE /\ screen' = screen
            /\ pc' = "idle"
    /\ UNCHANGED <<SERPAPI_KEY, OPENROUTER_API_KEY, flight_data, cheapest_flights,
                   research, hotels, itinerary, outstanding, calls, raised, t, out>>

\* if not SERPAPI_KEY or not OPENROUTER_API_KEY: st.error(...); st.stop()
Startup ==
    /\ pc = "startup"
    /\ IF Falsy(SERPAPI_KEY) \/ Falsy(OPENROUTER_API_KEY)
       THEN /\ screen' = << [w |-> "error", text |-> "API keys missing in .env file"] >>
            /\ pc' = "stopped"
       ELSE /\ screen' = screen
            /\ pc' = "idle"
    /\ UNCHANGED <<SERPAPI_KEY, OPENROUTER_API_KEY, flight_data, cheapest_flights,
                   research, hotels, itinerary, outstanding, calls, raised, t, out>>

\* an external call goes out
Issue(step) ==
    /\ outstanding' = outstanding \cup {step}
    /\ calls' = Append(calls, step)

\* the exception caught and passed over: the run goes on to the display
RaiseCaught(step) ==
    /\ pc' = "display"
    /\ raised' = step
    /\ outstanding' = outstanding \ {step}
    /\ UNCHANGED <<SERPAPI_KEY, OPENROUTER_API_KEY, flight_data, cheapest_flights,
                   research, hotels, itinerary, calls, screen, t, out>>

\* the exception of an external call is caught nowhere: the run ends
Raise(step) ==
    /\ pc' = "failed"
    /\ raised' = step
    /\ outstanding' = outstanding \ {step}
    /\ UNCHANGED <<SERPAPI_KEY, OPENROUTER_API_KEY, flight_data, cheapest_flights,
                   research, hotels, itinerary, calls, screen, t, out>>

\* the button is pressed: fetch_flights() sends the search
ClickGenerate ==
    /\ pc = "idle"
    /\ pc' = "flights"
    /\ Issue("flights")
    /\ UNCHANGED <<SERPAPI_KEY, OPENROUTER_API_KEY, flight_data, cheapest_flights,
                   research, hotels, itinerary, screen, raised, t, out>>

\* the three prompts sent together once the flights are in
FlightsReturnParallel ==
    /\ pc = "flights"
    /\ \E data \in Responses :
         /\ flight_data' = data
         /\ cheapest_flights' = extract_cheapest_flights(data)
    /\ outstanding' = (outstanding \ {"flights"}) \cup {"research", "hotels", "itinerary"}
    /\ calls' = calls \o <<"research", "hotels", "itinerary">>
    /\ pc' = "research"
    /\ UNCHANGED <<SERPAPI_KEY, OPENROUTER_API_KEY, research, hotels, itinerary,
                   screen, raised, t, out>>

\* the flight step raising on a response that carries "error"
FlightsReturnRaisesOnError ==
    /\ pc = "flights"
    /\ \E data \in Responses :
         /\ flight_data' = data
         /\ cheapest_flights' = extract_cheapest_flights(data)
         /\ IF "error" \in DOMAIN data
            THEN /\ pc' = "failed"
                 /\ raised' = "flights"
                 /\ outstanding' = outstanding \ {"flights"}
                 /\ calls' = calls
            ELSE /\ pc' = "research"
                 /\ raised' = raised
                 /\ outstanding' = (outstanding \ {"flights"}) \cup {"research"}
                 /\ calls' = Append(calls, "research")
    /\ UNCHANGED <<SERPAPI_KEY, OPENROUTER_API_KEY, research, hotels, itinerary,
                   screen, t, out>>

\* search.get_dict() returns; the cheapest are selected; the research
\* prompt is sent
FlightsReturn ==
    /\ pc = "flights"
    /\ \E data \in Responses :
         /\ flight_data' = data
         /\ cheapest_flights' = extract_cheapest_flights(data)
    /\ outstanding' = (outstanding \ {"flights"}) \cup {"research"}
    /\ calls' = Append(calls, "research")
    /\ pc' = "research"
    /\ UNCHANGED <<SERPAPI_KEY, OPENROUTER_API_KEY, research, hotels, itinerary,
                   screen, raised, t, out>>

FlightsFail == pc = "flights" /\ Raise("flights")

\* run_ai(research prompt) returns; the lodging prompt is sent
ResearchReturn ==
    /\ pc = "research"
    /\ research' = "research text"
    /\ outstanding' = (outstanding \ {"research"}) \cup {"hotels"}
    /\ calls' = Append(calls, "hotels")
    /\ pc' = "hotels"
    /\ UNCHANGED <<SERPAPI_KEY, OPENROUTER_API_KEY, flight_data, cheapest_flights,
                   hotels, itinerary, screen, raised, t, out>>

ResearchFail == pc = "research" /\ Raise("research")

\* run_ai(lodging prompt) returns; the itinerary prompt is sent
HotelsReturn ==
    /\ pc = "hotels"
    /\ hotels' = "hotels text"
    /\ outstanding' = (outstanding \ {"hotels"}) \cup {"itinerary"}
    /\ calls' = Append(calls, "itinerary")
    /\ pc' = "itinerary"
    /\ UNCHANGED <<SERPAPI_KEY, OPENROUTER_API_KEY, flight_data, cheapest_flights,
                   research, itinerary, screen, raised, t, out>>

HotelsFail == pc = "hotels" /\ Raise("hotels")

\* run_ai(itinerary prompt) returns
ItineraryReturn ==
    /\ pc = "itinerary"
    /\ itinerary' = "itinerary text"
    /\ outstanding' = outstanding \ {"itinerary"}
    /\ pc' = "display"
    /\ UNCHANGED <<SERPAPI_KEY, OPENROUTER_API_KEY, flight_data, cheapest_flights,
                   research, hotels, calls, screen, raised, t, out>>

ItineraryFail == pc = "itinerary" /\ Raise("itinerary")

\* the display block, lines 138-202
Display ==
    /\ pc = "display"
    /\ screen' = DisplayBlock
    /\ pc' = "done"
    /\ UNCHANGED <<SERPAPI_KEY, OPENROUTER_API_KEY, flight_data, cheapest_flights,
                   research, hotels, itinerary, outstanding, calls, raised, t, out>>

\* any later interaction reruns the script from its first line: nothing of
\* the finished run is kept
Rerun ==
    /\ pc \in {"done", "failed", "stopped"}
    /\ pc' = "startup"
    /\ flight_data' = Unset
    /\ cheapest_flights' = <<>>
    /\ research' = NoText
    /\ hotels' = NoText
    /\ itinerary' = NoText
    /\ outstanding' = {}
    /\ calls' = <<>>
    /\ screen' = <<>>
    /\ raised' = "none"
    /\ UNCHANGED <<SERPAPI_KEY, OPENROUTER_API_KEY, t, out>>

Next ==
    \/ Startup
    \/ ClickGenerate
    \/ FlightsReturn
    \/ FlightsFail
    \/ ResearchReturn
    \/ ResearchFail
    \/ HotelsReturn
    \/ HotelsFail
    \/ ItineraryReturn
    \/ ItineraryFail
    \/ Display
    \/ Rerun

Spec == Init /\ [][Next]_vars

(***************************************************************************)
(* format_datetime on its own: every input of FmtInputs is formatted.      *)
(* The inputs are None, a few strings that are no timestamps, and every    *)
(* concatenation year - month - day separator hour : minute tail of the    *)
(* field texts below, which hold well-formed, unpadded, out-of-range and   *)
(* malformed fields.                                                       *)
(***************************************************************************)
YearTexts == { <<"2", "0", "2", "5">>, <<"2", "0", "2", "4">>, <<"0", "0", "0", "0">>,
               <<"2", "5">>, <<"2", "0", "2", "5", "0">> }
MonthTexts == { <<"0", "3">>, <<"3">>, <<"0", "2">>, <<"1", "2">>, <<"1", "3">>,
                <<"0", "0">>, <<>> }
DayTexts == { <<"1", "0">>, <<"1">>, <<" ", "5">>, <<"2", "9">>, <<"3", "1">>,
              <<"3", "2">>, <<"0">> }
SepTexts == { <<" ">>, <<" ", " ">>, <<"\t">>, <<"T">>, <<>> }
HourTexts == { <<"1", "4">>, <<"4">>, <<"0", "0">>, <<"1", "2">>, <<"2", "4">> }
MinuteTexts == { <<"3", "0">>, <<"5">>, <<"0", "5">>, <<"6", "0">> }
TailTexts == { <<>>, <<":", "0", "0">>, <<" ">> }

FmtInputs ==
    {PyNone, PyStr(<<>>), PyStr(NA), PyStr(<<"2", "0", "2", "5", "-", "0", "3", "-", "1", "0">>)}
    \cup { PyStr(y \o <<"-">> \o m \o <<"-">> \o d \o w \o h \o <<":">> \o n \o e) :
             y \in YearTexts, m \in MonthTexts, d \in DayTexts, w \in SepTexts,
             h \in HourTexts, n \in MinuteTexts, e \in TailTexts }

InitFmt ==
    /\ SERPAPI_KEY = PyStr(<<"k">>)
    /\ OPENROUTER_API_KEY = PyStr(<<"k">>)
    /\ pc = "format"
    /\ flight_data = Unset
    /\ cheapest_flights = <<>>
    /\ research = NoText
    /\ hotels = NoText
    /\ itinerary = NoText
    /\ outstanding = {}
    /\ calls = <<>>
    /\ screen = <<>>
    /\ raised = "none"
    /\ t \in FmtInputs
    /\ out = PyNone

\* out = format_datetime(t)
Format ==
    /\ pc = "format"
    /\ out' = format_datetime(t)
    /\ pc' = "formatted"
    /\ UNCHANGED <<SERPAPI_KEY, OPENROUTER_API_KEY, t>>
    /\ UNCHANGED runvars

NextFmt == Format

SpecFmt == InitFmt /\ [][NextFmt]_vars

(***************************************************************************)
(* Properties.                                                             *)
(***************************************************************************)
HasPrice(o) == "price" \in DOMAIN o
\* a is strictly cheaper than b, an offer without a price costing more than
\* every priced one
Cheaper(a, b) == HasPrice(a) /\ (~HasPrice(b) \/ a.price < b.price)
SamePrice(a, b) == ~Cheaper(a, b) /\ ~Cheaper(b, a)

\* the offer list of the response received ("best_flights", or none)
ProviderOffers ==
    IF "best_flights" \in DOMAIN flight_data THEN flight_data.best_flights ELSE <<>>

FlightsReturned == flight_data # Unset

NoLegs(o) == "flights" \notin DOMAIN o \/ o.flights = <<>>

Notice == [w |-> "warning", text |-> "No flights found"]
Unavailable == [w |-> "warning", text |-> "Flight details unavailable"]
OnScreen(item) == \E i \in 1..Len(screen) : screen[i] = item
Wrote(text) == \E i \in 1..Len(screen) : screen[i].w = "write" /\ screen[i].text = text
CardsOnScreen == {i \in 1..Len(screen) : screen[i].w = "card"}

\* C1: the list the selector returns has at most 3 offers, its priced
\* offers are in ascending price order, and every offer without a price
\* comes after every offer with one.
C1_AtMostThreeAscending ==
    FlightsReturned =>
        /\ Len(cheapest_flights) <= 3
        /\ \A i, j \in 1..Len(cheapest_flights) :
             (i < j /\ HasPrice(cheapest_flights[j])) =>
                 /\ HasPrice(cheapest_flights[i])
                 /\ cheapest_flights[i].price <= cheapest_flights[j].price

\* C1 witness: four offers arrive out of order, one of them without a price,
\* and the selection holds three of them, the priceless one among them.
C1_Witness ==
    /\ FlightsReturned
    /\ Len(ProviderOffers) = 4
    /\ ~HasPrice(ProviderOffers[1])
    /\ HasPrice(ProviderOffers[2]) /\ HasPrice(ProviderOffers[3])
    /\ ProviderOffers[3].price < ProviderOffers[2].price
    /\ Len(cheapest_flights) = 3
    /\ \E i \in 1..3 : ~HasPrice(cheapest_flights[i])

\* C2: the selection is the first min(3, n) offers of the stable ascending
\* sort of the provider's list: it picks min(3, n) distinct positions of
\* the list, lists them by price and, at equal price, by position, and
\* every position left out is dearer than each one picked or equally
\* priced and later in the list.
C2_StableCheapestPrefix ==
    FlightsReturned =>
        LET fl == ProviderOffers
            n == Len(fl)
            r == cheapest_flights
            Before(a, b) == Cheaper(fl[a], fl[b]) \/ (SamePrice(fl[a], fl[b]) /\ a < b)
        IN /\ Len(r) = (IF n < 3 THEN n ELSE 3)
           /\ \E idx \in [1..Len(r) -> 1..n] :
                /\ \A k \in 1..Len(r) : r[k] = fl[idx[k]]
                /\ \A k, l \in 1..Len(r) : k < l => Before(idx[k], idx[l])
                /\ \A j \in 1..n :
                     (\A k \in 1..Len(r) : idx[k] # j) =>
                         \A k \in 1..Len(r) : Before(idx[k], j)

\* C2 witness: four offers, the dearer first, two of equal price that differ
\* in their legs: the selection keeps those two in the provider's order and
\* leaves an offer out.
C2_Witness ==
    /\ FlightsReturned
    /\ Len(ProviderOffers) = 4
    /\ Cheaper(ProviderOffers[2], ProviderOffers[1])
    /\ SamePrice(ProviderOffers[2], ProviderOffers[4])
    /\ ProviderOffers[2] # ProviderOffers[4]
    /\ Len(cheapest_flights) = 3
    /\ cheapest_flights[1] = ProviderOffers[2]
    /\ cheapest_flights[2] = ProviderOffers[4]

\* C3: a response whose "best_flights" is empty or absent selects nothing,
\* and the display of such a run shows the "No flights found" notice and
\* no flight card.
C3_EmptyShowsNotice ==
    (FlightsReturned /\ ProviderOffers = <<>>) =>
        /\ cheapest_flights = <<>>
        /\ pc = "done" =>
             /\ OnScreen(Notice)
             /\ CardsOnScreen = {}
             /\ ~OnScreen(Unavailable)

\* C3 witness: a finished run whose response carried an empty list.
C3_Witness ==
    /\ pc = "done"
    /\ "best_flights" \in DOMAIN flight_data
    /\ flight_data.best_flights = <<>>
    /\ OnScreen(Notice)

\* C4 (as stated): a finished run, in which all four calls succeeded, shows
\* the flight section, the research text, the lodging text and the
\* itinerary text.
C4_AllFourShown ==
    pc = "done" =>
        /\ OnScreen([w |-> "subheader", text |-> "Cheapest Flights"])
        /\ Wrote(research)
        /\ Wrote(hotels)
        /\ Wrote(itinerary)

\* the steps before and including step, in the order of the script
UpTo(step) == SubSeq(Steps, 1, CHOOSE i \in 1..Len(Steps) : Steps[i] = step)

\* C5: once an external call has raised, the run is over: the calls issued
\* are those up to the failed one, each once, none is outstanding, nothing
\* is on the screen, and the only step that follows starts a fresh run.
C5_FailFast ==
    /\ [](raised # "none" =>
            /\ pc = "failed"
            /\ calls = UpTo(raised)
            /\ outstanding = {}
            /\ screen = <<>>)
    /\ [][raised # "none" =>
            /\ pc' = "startup"
            /\ raised' = "none"
            /\ calls' = <<>>
            /\ screen' = <<>>]_vars

\* C5 witness: the lodging call raised after flights and research returned.
C5_Witness ==
    /\ raised = "hotels"
    /\ pc = "failed"
    /\ FlightsReturned
    /\ research # NoText
    /\ calls = <<"flights", "research", "hotels">>

\* C6: with either key absent or empty the script shows the error and
\* stops: no request is ever issued and the button is never reached.
C6_MissingKeyHalts ==
    (Falsy(SERPAPI_KEY) \/ Falsy(OPENROUTER_API_KEY)) =>
        /\ pc \in {"startup", "stopped"}
        /\ calls = <<>>
        /\ outstanding = {}
        /\ pc = "stopped" =>
             screen = << [w |-> "error", text |-> "API keys missing in .env file"] >>

\* C6 witness: stopped with only the language-model key empty.
C6_Witness ==
    /\ pc = "stopped"
    /\ ~Falsy(SERPAPI_KEY)
    /\ OPENROUTER_API_KEY = PyStr(<<>>)
    /\ screen # <<>>

\* a string of exactly the shape YYYY-MM-DD HH:MM
FixedFormat(s) ==
    /\ Len(s) = 16
    /\ \A i \in {1, 2, 3, 4, 6, 7, 9, 10, 12, 13, 15, 16} : IsDigit(s[i])
    /\ s[5] = "-" /\ s[8] = "-" /\ s[11] = " " /\ s[14] = ":"

AllDigits(s, i, j) == \A k \in i..j : IsDigit(At(s, k))

\* four digits, "-", one or two digits, "-", one or two digits or a blank
\* and a digit, one or more whitespace characters, one or two digits, ":",
\* one or two digits; b and d are the places of the second "-" and of the
\* ":", c and e the places where the whitespace and the hour start
LooseFormat(s) ==
    /\ AllDigits(s, 1, 4) /\ At(s, 5) = "-"
    /\ \E b \in {7, 8} :
         /\ AllDigits(s, 6, b - 1) /\ At(s, b) = "-"
         /\ \E c \in {b + 2, b + 3} :
              /\ \/ AllDigits(s, b + 1, c - 1)
                 \/ c = b + 3 /\ At(s, b + 1) = " " /\ IsDigit(At(s, b + 2))
              /\ \E e \in (c + 1)..Len(s) :
                   /\ \A k \in c..(e - 1) : IsSpace(At(s, k))
                   /\ \E d \in {e + 1, e + 2} :
                        /\ AllDigits(s, e, d - 1) /\ At(s, d) = ":"
                        /\ Len(s) - d \in {1, 2}
                        /\ AllDigits(s, d + 1, Len(s))

Returns(v) == "type" \in DOMAIN v /\ v.type = "str"

\* C7 (as stated): format_datetime returns a string for every input, and
\* "N/A" for every string that is not of the shape YYYY-MM-DD HH:MM.
C7_FixedFormatOrNA ==
    pc = "formatted" =>
        /\ Returns(out)
        /\ (t.type = "str" /\ ~FixedFormat(t.val)) => out = PyStr(NA)

\* C7 (amended): format_datetime returns a string for every input, None and
\* the empty string included, and "N/A" for None and for every string that
\* is not of the loose shape strptime accepts (fields of one or two digits,
\* any run of whitespace between date and time).
C7_TotalLooseFormatOrNA ==
    pc = "formatted" =>
        /\ Returns(out)
        /\ (t.type # "str" \/ ~LooseFormat(t.val)) => out = PyStr(NA)

\* C7 witness: "2025-03-10T14:30" was formatted to "N/A".
C7_Witness ==
    /\ pc = "formatted"
    /\ t = PyStr(Chars_2025_03_10_T1430)
    /\ out = PyStr(NA)

IsPrefix(xs, ys) == Len(xs) <= Len(ys) /\ xs = SubSeq(ys, 1, Len(xs))

Returned(step) ==
    CASE step = "flights" -> flight_data # Unset
      [] step = "research" -> research # NoText
      [] step = "hotels" -> hotels # NoText
      [] step = "itinerary" -> itinerary # NoText

\* C8: the calls of a run go out in the order flights, research, hotels,
\* itinerary, each after the one before it has returned, at most one is
\* outstanding, and anything the run renders comes after the itinerary
\* call has returned.
C8_StrictSequence ==
    /\ IsPrefix(calls, Steps)
    /\ Cardinality(outstanding) <= 1
    /\ \A i \in 1..Len(calls) :
         /\ i > 1 => Returned(calls[i - 1])
         /\ i < Len(calls) => calls[i] \notin outstanding
    /\ (screen # <<>> /\ pc # "stopped") =>
         /\ Len(calls) = 4
         /\ Returned("itinerary")
         /\ outstanding = {}

\* C8 witness: the lodging call is the one outstanding, flights and
\* research having returned.
C8_Witness ==
    /\ pc = "hotels"
    /\ outstanding = {"hotels"}
    /\ calls = <<"flights", "research", "hotels">>
    /\ Returned("flights") /\ Returned("research") /\ ~Returned("hotels")

\* what a run with zero offers shows
ZeroOfferScreen ==
    << [w |-> "subheader", text |-> "Cheapest Flights"],
       Notice,
       [w |-> "subheader", text |-> "Hotels & Restaurants"],
       [w |-> "write", text |-> "hotels text"],
       [w |-> "subheader", text |-> "Personalized Itinerary"],
       [w |-> "write", text |-> "itinerary text"],
       [w |-> "success", text |-> "Travel plan generated successfully!"] >>

\* C9: the provider's error response is handled as a response without
\* offers: nothing is selected, the flight step does not fail, the research
\* call goes out, and the finished run has made all four calls and shows
\* what a run with zero offers shows.
C9_ErrorAsNoResults ==
    flight_data = ErrorResponse =>
        /\ cheapest_flights = <<>>
        /\ raised # "flights"
        /\ IsPrefix(<<"flights", "research">>, calls)
        /\ pc = "done" => (calls = Steps /\ screen = ZeroOfferScreen)

\* C9 witness: a finished run whose flight search got the error response.
C9_Witness ==
    /\ pc = "done"
    /\ flight_data = ErrorResponse
    /\ screen = ZeroOfferScreen

\* C10: a non-empty selection is displayed as one item per offer, in the
\* order of the selection: the "Flight details unavailable" warning for an
\* offer without legs, a card of the offer otherwise; the notice "No
\* flights found" is not shown.
C10_OneItemPerOffer ==
    (pc = "done" /\ cheapest_flights # <<>>) =>
        /\ Len(screen) = Len(cheapest_flights) + 6
        /\ ~OnScreen(Notice)
        /\ \A i \in 1..Len(cheapest_flights) :
             LET o == cheapest_flights[i]
                 item == screen[i + 1]
             IN IF NoLegs(o)
                THEN item = Unavailable
                ELSE /\ item.w = "card"
                     /\ item.airline = Get(o.flights[1], "airline", "Unknown Airline")
                     /\ HasPrice(o) => item.price = o.price

\* C10 witness: a finished run whose selection starts with an offer without
\* legs and goes on with one that has legs.
C10_Witness ==
    /\ pc = "done"
    /\ Len(cheapest_flights) = 3
    /\ NoLegs(cheapest_flights[1])
    /\ ~NoLegs(cheapest_flights[2])
    /\ NoLegs(cheapest_flights[3])
    /\ screen[2] = Unavailable
    /\ screen[3].w = "card"
    /\ screen[4] = Unavailable

====
